---- MODULE Spec2Model ----
(***************************************************************************)
(* A model of the Ai-Trader data pipeline: load_data / download_data write  *)
(* the raw CSV, process_data(raw_data_path, processed_data_path) turns it   *)
(* into the processed CSV, time_series_split cuts that into train and test  *)
(* files, and validate_data_pipeline inspects a DataFrame.  Each of them    *)
(* has a specification of its own over one shared file system.              *)
(*                                                                         *)
(* Numbers.  pandas works on floats; the model works on exact rationals    *)
(* <<n, d>> in lowest terms with d > 0.  NaN is <<0, 0>>.  Log_Return is   *)
(* ln of a rational: the model carries the argument of ln (ln is strictly  *)
(* increasing, so order, min and max are those of the arguments) and a     *)
(* normalized logarithm ln(x/lo) / ln(hi/lo) is carried as the pair of its *)
(* two arguments.                                                          *)
(***************************************************************************)
EXTENDS Integers, Sequences, FiniteSets, TLC

\* ------------------------------------------------------------ bounds
\* rolling(window=20) of process_data
Window == 20
\* rows the environment may append to a raw file after its first Window rows
MaxTail == 2
\* appended Close prices are drawn from 1..MaxClose
MaxClose == 3

\* ------------------------------------------------------------ rationals
Abs(x) == IF x < 0 THEN 0 - x ELSE x

RECURSIVE GCD(_, _)
GCD(a, b) == IF b = 0 THEN a ELSE GCD(b, a % b)

\* n/d in lowest terms, sign carried by the numerator (d # 0)
Frac(n, d) ==
    LET g == GCD(Abs(n), Abs(d))
        s == IF d < 0 THEN 0 - 1 ELSE 1
    IN  <<(s * n) \div g, (s * d) \div g>>

NaN == <<0, 0>>
IsNaN(x) == x[2] = 0
Num(n) == <<n, 1>>
Zero == <<0, 1>>
One == <<1, 1>>

FSub(x, y) == Frac(x[1] * y[2] - y[1] * x[2], x[2] * y[2])
FDiv(x, y) == Frac(x[1] * y[2], x[2] * y[1])
FLt(x, y) == x[1] * y[2] < y[1] * x[2]
FLe(x, y) == x[1] * y[2] <= y[1] * x[2]

\* ------------------------------------------------------------ raw data
\* the instrument identifiers, in the order groupby('Ticker') yields them
TickerOrder == <<"MSFT", "NOK">>
Tickers == {TickerOrder[i] : i \in 1..Len(TickerOrder)}

RawRow(d, k, o, c) == [Date |-> d, Ticker |-> k, Open |-> o, Close |-> c]

FAdd(x, y) == Frac(x[1] * y[2] + y[1] * x[2], x[2] * y[2])

\* ------------------------------------------------------------ feature engine
\* A group is the sequence of one ticker's rows, in file order (the code does
\* not sort it).  Positions are 1-based.

RECURSIVE CloseSum(_, _, _)
CloseSum(g, lo, hi) ==
    IF lo = hi THEN g[lo].Close
    ELSE LET mid == (lo + hi) \div 2
         IN  FAdd(CloseSum(g, lo, mid), CloseSum(g, mid + 1, hi))

\* Close.rolling(window=20).mean(): NaN until 20 observations, none of them NaN
SMA_20(g, i) ==
    IF i < Window \/ \E j \in (i - Window + 1)..i : IsNaN(g[j].Close)
    THEN NaN
    ELSE FDiv(CloseSum(g, i - Window + 1, i), Num(Window))

\* Close.pct_change(1) at position j.  A missing Close occurs in the raw files
\* below only at the head of a series, where every pandas fill_method agrees.
PctChange(g, j) ==
    IF j < 2 THEN NaN
    ELSE IF IsNaN(g[j].Close) \/ IsNaN(g[j - 1].Close) THEN NaN
    ELSE FSub(FDiv(g[j].Close, g[j - 1].Close), One)

\* mutant of the lag: the percent change of the day itself, without shift(1)
Lag_Return_1_SameDay(g, i) == PctChange(g, i)

\* Close.pct_change(1).shift(1)
Lag_Return_1(g, i) == IF i < 2 THEN NaN ELSE PctChange(g, i - 1)

\* np.log(Close / Close.shift(1)): the argument of the logarithm
Log_Return(g, i) ==
    IF i < 2 THEN NaN
    ELSE IF IsNaN(g[i].Close) \/ IsNaN(g[i - 1].Close) THEN NaN
    ELSE FDiv(g[i].Close, g[i - 1].Close)

\* columns_to_normalize that exist in the modelled schema
LinearCols == {"Open", "Close", "SMA_20", "Lag_Return_1"}
NumericCols == LinearCols \cup {"Log_Return", "y"}

WithFeatures(g) ==
    [i \in 1..Len(g) |->
        [Date |-> g[i].Date, Ticker |-> g[i].Ticker,
         Open |-> g[i].Open, Close |-> g[i].Close,
         SMA_20 |-> SMA_20(g, i),
         Lag_Return_1 |-> Lag_Return_1(g, i),
         Log_Return |-> Log_Return(g, i)]]

\* ------------------------------------------------------------ missing data
RECURSIVE FillAt(_, _, _)
FillAt(g, i, c) ==
    IF i = 1 \/ ~IsNaN(g[i][c]) THEN g[i][c] ELSE FillAt(g, i - 1, c)

\* DataFrame.ffill(): every column takes its last valid observation
FFill(g) ==
    [i \in 1..Len(g) |->
        [c \in DOMAIN g[i] |->
            IF c \in NumericCols THEN FillAt(g, i, c) ELSE g[i][c]]]

RowComplete(r) == \A c \in NumericCols \cap DOMAIN r : ~IsNaN(r[c])

\* DataFrame.dropna(): rows with any missing value go
DropNa(g) == SelectSeq(g, RowComplete)

\* ------------------------------------------------------------ label
\* (Close.shift(-1) > Close).astype(int): a comparison with the missing
\* successor of the last row is False, so the last row gets 0
\* mutant of the label: >= in place of >
Label_GreaterEqual(g, i) ==
    IF i < Len(g) /\ FLe(g[i].Close, g[i + 1].Close) THEN One ELSE Zero

Label(g, i) ==
    IF i < Len(g) /\ FLt(g[i].Close, g[i + 1].Close) THEN One ELSE Zero

WithLabel(g) ==
    [i \in 1..Len(g) |->
        [c \in DOMAIN g[i] \cup {"y"} |->
            IF c = "y" THEN Label(g, i) ELSE g[i][c]]]

\* ------------------------------------------------------------ normalizer
ColValues(g, c) == {g[i][c] : i \in 1..Len(g)}
ColMin(g, c) == CHOOSE v \in ColValues(g, c) : \A w \in ColValues(g, c) : FLe(v, w)
ColMax(g, c) == CHOOSE v \in ColValues(g, c) : \A w \in ColValues(g, c) : FLe(w, v)

\* mutant of the scaler: MaxAbsScaler, x / max
Scale_MaxAbs(x, lo, hi) == IF hi = Zero THEN Zero ELSE FDiv(x, hi)

\* MinMaxScaler: (x - min) * scale with scale = 1 / (max - min), and scale = 1
\* for a column of zero range
Scale(x, lo, hi) ==
    IF lo = hi THEN Zero ELSE FDiv(FSub(x, lo), FSub(hi, lo))

\* the same on logarithms: (ln x - ln lo) / (ln hi - ln lo) = ln(x/lo) / ln(hi/lo),
\* carried as <<x/lo, hi/lo>>, with one name for 0 and one for 1
LogZero == <<One, One>>
LogOne == <<Num(2), Num(2)>>
LogScale(x, lo, hi) ==
    IF lo = hi \/ x = lo THEN LogZero
    ELSE IF x = hi THEN LogOne
    ELSE <<FDiv(x, lo), FDiv(hi, lo)>>

\* scaler.fit_transform on the group's own surviving rows
FitTransform(g) ==
    [i \in 1..Len(g) |->
        [c \in DOMAIN g[i] |->
            IF c \in LinearCols
            THEN Scale(g[i][c], ColMin(g, c), ColMax(g, c))
            ELSE IF c = "Log_Return"
            THEN LogScale(g[i][c], ColMin(g, c), ColMax(g, c))
            ELSE g[i][c]]]

\* ------------------------------------------------------------ process_data
\* mutant of the grouping: the whole file handled as one series
GroupOf_Ungrouped(rows, k) == IF k = TickerOrder[1] THEN rows ELSE <<>>

GroupOf(rows, k) == SelectSeq(rows, LAMBDA r : r.Ticker = k)

\* the body of the per-ticker loop; <<>> when the ticker is skipped.  The
\* "no valid columns" skip cannot be taken: Close, read three times before it,
\* is always among the columns to normalize.
ProcessGroup(g) ==
    LET cleaned == DropNa(FFill(WithFeatures(g)))
    IN  IF cleaned = <<>> THEN <<>>
        ELSE FitTransform(DropNa(WithLabel(cleaned)))

RECURSIVE ConcatGroups(_, _)
ConcatGroups(rows, n) ==
    IF n = 0 THEN <<>>
    ELSE ConcatGroups(rows, n - 1) \o ProcessGroup(GroupOf(rows, TickerOrder[n]))

\* pd.to_datetime(processed_group['Date']) raises on a cell that is no date
ParsesAsDate(d) == d >= 1
GroupRaises(g) == \E i \in 1..Len(g) : ~ParsesAsDate(g[i].Date)
Raises(rows) == \E k \in Tickers : GroupRaises(GroupOf(rows, k))

\* mutant of the skip: one ticker left empty by the cleaning ends the run
ProcessRows_AbortOnSkip(rows) ==
    IF \E k \in Tickers :
          /\ GroupOf(rows, k) # <<>>
          /\ DropNa(FFill(WithFeatures(GroupOf(rows, k)))) = <<>>
    THEN <<>>
    ELSE ConcatGroups(rows, Len(TickerOrder))

\* pd.concat(all_processed_data): the groups in groupby order
ProcessRows(rows) == ConcatGroups(rows, Len(TickerOrder))

\* ------------------------------------------------------------ files
VARIABLES
    rawExists,   \* os.path.exists(raw_data_path)
    raw,         \* content of the raw CSV: its columns and its rows in file order
    procExists,  \* os.path.exists(processed_data_path)
    proc,        \* content of the processed CSV
    ret,         \* what the most recent process_data call returned
    trainFile,   \* train_data.csv, next to the processed CSV
    testFile,    \* test_data.csv, next to the processed CSV
    split,       \* the most recent time_series_split call: outcome, train_df, test_df
    df,          \* the DataFrame handed to validate_data_pipeline
    issues_found,\* the findings of the most recent validate_data_pipeline call
    valRet,      \* how that call ended
    loadArgs,    \* the ticker file and date range load_data is run with
    loadRet,     \* what the most recent load_data call returned
    pc,          \* concurrent process_data invocations: where each one stands
    local,       \* their local final_df
    wrote        \* the invocations that have executed to_csv

processVars == <<rawExists, raw, procExists, proc, ret>>
splitVars == <<trainFile, testFile, split>>
validateVars == <<df, issues_found, valRet>>
loadVars == <<loadArgs, loadRet>>
raceVars == <<pc, local, wrote>>
vars == <<processVars, splitVars, validateVars, loadVars, raceVars>>

\* what a sequential process_data call and its environment leave alone
outsideProcess == <<splitVars, validateVars, loadVars, raceVars>>

NoContent == [dummy |-> FALSE, rows |-> <<>>]
\* a processed file some other party wrote: open(path, 'w').write("dummy")
DummyContent == [dummy |-> TRUE, rows |-> <<>>]

NoCall == [kind |-> "nocall", rows |-> <<>>]
None == [kind |-> "None", rows |-> <<>>]
DataFrame(rows) == [kind |-> "df", rows |-> rows]
\* the call ended in an exception that nothing in process_data catches
Raised == [kind |-> "raise", rows |-> <<>>]

FullCols == {"Date", "Ticker", "Open", "Close"}
NoRaw == [cols |-> {}, rows |-> <<>>]

\* the first Window days of a ticker: a fixed price pattern per ticker
WarmClose(k, d) == IF k = "MSFT" THEN 1 + (d % 3) ELSE 5 + (d % 2)
WarmOpen(k) == IF k = "MSFT" THEN 5 ELSE 9
WarmRows(k) ==
    [d \in 1..Window |-> RawRow(d, k, Num(WarmOpen(k)), Num(WarmClose(k, d)))]

\* the raw files of the tests: a file without Ticker, the two-day file with
\* missing values (prices in tenths), and Window days of one or two tickers
BadRaw == [cols |-> {"Date", "Open"}, rows |-> <<RawRow(1, "", Num(100), NaN)>>]
TrickyRaw ==
    [cols |-> FullCols,
     rows |-> <<RawRow(1, "NOK", Num(50), Num(51)), RawRow(2, "NOK", NaN, Num(52)),
                RawRow(1, "MSFT", NaN, NaN), RawRow(2, "MSFT", Num(3000), Num(3020))>>]
WarmRaw(ks) ==
    [cols |-> FullCols,
     rows |-> (IF "MSFT" \in ks THEN WarmRows("MSFT") ELSE <<>>)
              \o (IF "NOK" \in ks THEN WarmRows("NOK") ELSE <<>>)]
\* a file in which one Date cell of the last ticker is not a date (day 0 stands
\* for text that pd.to_datetime cannot parse; the days of the model start at 1)
CorruptRaw ==
    [cols |-> FullCols,
     rows |-> WarmRows("MSFT")
              \o [d \in 1..Window |->
                    RawRow(IF d = Window THEN 0 ELSE d, "NOK",
                           Num(WarmOpen("NOK")), Num(WarmClose("NOK", d)))]]
\* a file in which the last ticker has fewer days than the warm-up needs
ShortRaw ==
    [cols |-> FullCols,
     rows |-> WarmRows("MSFT")
              \o [d \in 1..2 |->
                    RawRow(d, "NOK", Num(WarmOpen("NOK")), Num(WarmClose("NOK", d)))]]
InitialRaws ==
    {BadRaw, TrickyRaw, CorruptRaw, ShortRaw}
    \cup {WarmRaw(ks) : ks \in (SUBSET Tickers) \ {{}}}

OpenChoices == {NaN, Num(7)}
CloseChoices == {Num(c) : c \in 1..MaxClose}

Present(rows) == {rows[i].Ticker : i \in 1..Len(rows)}
LastDate(rows, k) ==
    LET g == GroupOf(rows, k)
    IN  CHOOSE d \in {g[i].Date : i \in 1..Len(g)} : \A i \in 1..Len(g) : g[i].Date <= d
DateSorted(rows) ==
    \A k \in Present(rows) :
        LET g == GroupOf(rows, k)
        IN  \A i \in 1..(Len(g) - 1) : g[i].Date < g[i + 1].Date

\* the parts of the pipeline that a specification leaves out stay as they are
\* before their first call
NoFile == [exists |-> FALSE, rows |-> <<>>]
NoSplit == [kind |-> "nocall", train_df |-> <<>>, test_df |-> <<>>]
SplitIdle ==
    /\ trainFile = NoFile
    /\ testFile = NoFile
    /\ split = NoSplit

NoFrame == [cols |-> {}, rows |-> <<>>]
ValidateIdle ==
    /\ df = NoFrame
    /\ issues_found = <<>>
    /\ valRet = "nocall"

NoArgs == [fileExists |-> FALSE, tickers |-> <<>>, start |-> 1, end |-> 1]
LoadIdle ==
    /\ loadArgs = NoArgs
    /\ loadRet = NoCall

Procs == {1, 2}
RaceIdle ==
    /\ pc = [p \in Procs |-> "idle"]
    /\ local = [p \in Procs |-> NoCall]
    /\ wrote = {}

Init ==
    /\ rawExists = TRUE
    /\ raw \in InitialRaws
    /\ procExists = FALSE
    /\ proc = NoContent
    /\ ret = NoCall
    /\ SplitIdle /\ ValidateIdle /\ LoadIdle /\ RaceIdle

\* ------------------------------------------------------------ process_data
RawMissing ==
    /\ ~rawExists
    /\ ret' = None
    /\ UNCHANGED <<rawExists, raw, procExists, proc, outsideProcess>>

\* mutants of the skip-if-exists branch: recompute and overwrite; append the rows again
AlreadyProcessed_Overwrite ==
    /\ rawExists /\ procExists
    /\ "Ticker" \in raw.cols
    /\ ProcessRows(raw.rows) # <<>>
    /\ proc' = [dummy |-> FALSE, rows |-> ProcessRows(raw.rows)]
    /\ ret' = DataFrame(ProcessRows(raw.rows))
    /\ UNCHANGED <<rawExists, raw, procExists, outsideProcess>>

AlreadyProcessed_Append ==
    /\ rawExists /\ procExists
    /\ ret' = None
    /\ proc' = IF proc.dummy \/ "Ticker" \notin raw.cols THEN proc
               ELSE [dummy |-> FALSE, rows |-> proc.rows \o ProcessRows(raw.rows)]
    /\ UNCHANGED <<rawExists, raw, procExists, outsideProcess>>

AlreadyProcessed ==
    /\ rawExists /\ procExists
    /\ ret' = None
    /\ UNCHANGED <<rawExists, raw, procExists, proc, outsideProcess>>

\* mutant of the Ticker check: the file is written although the column is missing
NoTickerColumn_Writes ==
    /\ rawExists /\ ~procExists
    /\ "Ticker" \notin raw.cols
    /\ procExists' = TRUE
    /\ proc' = [dummy |-> FALSE, rows |-> <<>>]
    /\ ret' = None
    /\ UNCHANGED <<rawExists, raw, outsideProcess>>

NoTickerColumn ==
    /\ rawExists /\ ~procExists
    /\ "Ticker" \notin raw.cols
    /\ ret' = None
    /\ UNCHANGED <<rawExists, raw, procExists, proc, outsideProcess>>

\* the loop body raises on the first group with an unparsable Date; nothing
\* catches it, so the call ends there: no concat, no to_csv
GroupRaised ==
    /\ rawExists /\ ~procExists
    /\ "Ticker" \in raw.cols
    /\ Raises(raw.rows)
    /\ ret' = Raised
    /\ UNCHANGED <<rawExists, raw, procExists, proc, outsideProcess>>

\* mutant of the nothing-processed return: an empty processed file is written
\* before None is returned
NoDataProcessed_WritesEmpty ==
    /\ rawExists /\ ~procExists
    /\ "Ticker" \in raw.cols
    /\ ~Raises(raw.rows)
    /\ ProcessRows(raw.rows) = <<>>
    /\ procExists' = TRUE
    /\ proc' = [dummy |-> FALSE, rows |-> <<>>]
    /\ ret' = None
    /\ UNCHANGED <<rawExists, raw, outsideProcess>>

NoDataProcessed ==
    /\ rawExists /\ ~procExists
    /\ "Ticker" \in raw.cols
    /\ ~Raises(raw.rows)
    /\ ProcessRows(raw.rows) = <<>>
    /\ ret' = None
    /\ UNCHANGED <<rawExists, raw, procExists, proc, outsideProcess>>

Saved ==
    /\ rawExists /\ ~procExists
    /\ "Ticker" \in raw.cols
    /\ ~Raises(raw.rows)
    /\ LET final_df == ProcessRows(raw.rows)
       IN  /\ final_df # <<>>
           /\ procExists' = TRUE
           /\ proc' = [dummy |-> FALSE, rows |-> final_df]
           /\ ret' = DataFrame(final_df)
    /\ UNCHANGED <<rawExists, raw, outsideProcess>>

ProcessData ==
    \/ RawMissing
    \/ AlreadyProcessed
    \/ NoTickerColumn
    \/ GroupRaised
    \/ NoDataProcessed
    \/ Saved

\* ------------------------------------------------------------ environment
\* a later day of ticker k arrives in the raw file (bounds of the model: only
\* the ticker the file ends with grows, and only a file still in date order)
ExtendRaw(k, o, c) ==
    /\ rawExists
    /\ raw.rows # <<>>
    /\ k = raw.rows[Len(raw.rows)].Ticker
    /\ Len(GroupOf(raw.rows, k)) >= Window
    /\ Len(raw.rows) < Window * Cardinality(Present(raw.rows)) + MaxTail
    /\ DateSorted(raw.rows)
    /\ raw' = [cols |-> raw.cols,
               rows |-> Append(raw.rows, RawRow(LastDate(raw.rows, k) + 1, k, o, c))]
    /\ ret' = NoCall
    /\ UNCHANGED <<rawExists, procExists, proc, outsideProcess>>

\* the raw file's last two rows change places (the file is no longer in date order)
SwapRaw ==
    /\ rawExists
    /\ LET n == Len(raw.rows)
       IN  /\ n >= 2
           /\ raw.rows[n - 1].Ticker = raw.rows[n].Ticker
           /\ DateSorted(raw.rows)
           /\ raw' = [cols |-> raw.cols,
                      rows |-> [i \in 1..n |->
                                  IF i = n - 1 THEN raw.rows[n]
                                  ELSE IF i = n THEN raw.rows[n - 1]
                                  ELSE raw.rows[i]]]
    /\ ret' = NoCall
    /\ UNCHANGED <<rawExists, procExists, proc, outsideProcess>>

RemoveRaw ==
    /\ rawExists
    /\ rawExists' = FALSE
    /\ raw' = NoRaw
    /\ ret' = NoCall
    /\ UNCHANGED <<procExists, proc, outsideProcess>>

WriteRaw(d) ==
    /\ ~rawExists /\ ~procExists
    /\ rawExists' = TRUE
    /\ raw' = d
    /\ ret' = NoCall
    /\ UNCHANGED <<procExists, proc, outsideProcess>>

WriteDummyProcessed ==
    /\ ~procExists
    /\ procExists' = TRUE
    /\ proc' = DummyContent
    /\ ret' = NoCall
    /\ UNCHANGED <<rawExists, raw, outsideProcess>>

RemoveProcessed ==
    /\ procExists
    /\ procExists' = FALSE
    /\ proc' = NoContent
    /\ ret' = NoCall
    /\ UNCHANGED <<rawExists, raw, outsideProcess>>

Environment ==
    \/ \E k \in Tickers, o \in OpenChoices, c \in CloseChoices : ExtendRaw(k, o, c)
    \/ SwapRaw
    \/ RemoveRaw
    \/ \E d \in InitialRaws : WriteRaw(d)
    \/ WriteDummyProcessed
    \/ RemoveProcessed

Next == ProcessData \/ Environment

Spec == Init /\ [][Next]_vars

TypeOK ==
    /\ rawExists \in BOOLEAN
    /\ procExists \in BOOLEAN
    /\ ret.kind \in {"nocall", "None", "df", "raise"}
    /\ proc.dummy \in BOOLEAN

\* ------------------------------------------------------------ time_series_split
\* TimeSeriesSplit(n_splits=4) of split_data.py
SplitNSplits == 4
\* days a raw series of the split's inputs may have after its first Window days
MaxExtra == 3

\* sklearn TimeSeriesSplit over n samples and k splits: k + 1 folds, test folds
\* of n // (k + 1) samples taken from the end, each trained on all that precedes
TooFewSamples(n, k) == k + 1 > n
TestSize(n, k) == n \div (k + 1)
\* positions (1-based) of split i of k, i in 1..k
TestStart(n, k, i) == n - (k - i + 1) * TestSize(n, k)
\* mutant of the train positions: the row just before the test fold is left out
TrainIndex_Gap(n, k, i) == 1..(TestStart(n, k, i) - 1)
TrainIndex(n, k, i) == 1..TestStart(n, k, i)
TestIndex(n, k, i) == (TestStart(n, k, i) + 1)..(TestStart(n, k, i) + TestSize(n, k))

Bijections(n) == {f \in [1..n -> 1..n] : \A i, j \in 1..n : i # j => f[i] # f[j]}
OrdersOf(g) == {[i \in 1..Len(g) |-> g[f[i]]] : f \in Bijections(Len(g))}
MinOf(S) == CHOOSE d \in S : \A e \in S : d <= e

\* df.sort_index(): ascending Date; the order among rows of one Date is
\* whatever the sort leaves, so every order is an outcome
RECURSIVE SortIndex(_, _)
SortIndex(rows, dates) ==
    IF dates = {} THEN {<<>>}
    ELSE LET d == MinOf(dates)
             same == SelectSeq(rows, LAMBDA r : r.Date = d)
         IN  {a \o b : a \in OrdersOf(same), b \in SortIndex(rows, dates \ {d})}

DatesOf(rows) == {rows[i].Date : i \in 1..Len(rows)}

\* to_csv(index=False): the Date index is not written
DropIndex(rows) ==
    [i \in 1..Len(rows) |-> [c \in (DOMAIN rows[i]) \ {"Date"} |-> rows[i][c]]]

SplitOutcome(kind, train_df, test_df) ==
    [kind |-> kind, train_df |-> train_df, test_df |-> test_df]

\* mutant of the too-few-rows failure: the rows are written as a train file
\* before the error surfaces
SplitRaises_PartialFold ==
    /\ procExists /\ ~proc.dummy
    /\ TooFewSamples(Len(proc.rows), SplitNSplits)
    /\ split' = SplitOutcome("ValueError", <<>>, <<>>)
    /\ trainFile' = [exists |-> TRUE, rows |-> DropIndex(proc.rows)]
    /\ UNCHANGED <<testFile, processVars, validateVars, loadVars, raceVars>>

\* pd.read_csv raises: no file, or a file without a Date column
SplitUnreadable ==
    /\ ~procExists \/ proc.dummy
    /\ split' = SplitOutcome("ReadError", <<>>, <<>>)
    /\ UNCHANGED <<trainFile, testFile, processVars, validateVars, loadVars, raceVars>>

\* list(tscv.split(df)) raises ValueError: more folds than samples
SplitRaises ==
    /\ procExists /\ ~proc.dummy
    /\ TooFewSamples(Len(proc.rows), SplitNSplits)
    /\ split' = SplitOutcome("ValueError", <<>>, <<>>)
    /\ UNCHANGED <<trainFile, testFile, processVars, validateVars, loadVars, raceVars>>

\* the last split is cut by position and both parts are written
SplitWritten ==
    /\ procExists /\ ~proc.dummy
    /\ ~TooFewSamples(Len(proc.rows), SplitNSplits)
    /\ \E sorted \in SortIndex(proc.rows, DatesOf(proc.rows)) :
          LET n == Len(sorted)
              train_index == TrainIndex(n, SplitNSplits, SplitNSplits)
              test_index == TestIndex(n, SplitNSplits, SplitNSplits)
              train_df == [i \in train_index |-> sorted[i]]
              test_df == [i \in 1..Cardinality(test_index) |->
                             sorted[MinOf(test_index) + i - 1]]
          IN  /\ trainFile' = [exists |-> TRUE, rows |-> DropIndex(train_df)]
              /\ testFile' = [exists |-> TRUE, rows |-> DropIndex(test_df)]
              /\ split' = SplitOutcome("ok", train_df, test_df)
    /\ UNCHANGED <<processVars, validateVars, loadVars, raceVars>>

TimeSeriesSplit ==
    \/ SplitUnreadable
    \/ SplitRaises
    \/ SplitWritten

\* the raw series the pipeline is run on: the first Window days of a ticker
\* and up to MaxExtra later days, the last of them closing low or high
LastCloses == {Num(2), Num(9)}
PipeRows(k, t, c) ==
    WarmRows(k)
    \o [i \in 1..t |->
          RawRow(Window + i, k, Num(WarmOpen(k)),
                 IF i = t THEN c ELSE Num(WarmClose(k, Window + i)))]
PipeSeries(k) ==
    {WarmRows(k)} \cup {PipeRows(k, t, c) : t \in 1..MaxExtra, c \in LastCloses}
PipelineRaws ==
    {[cols |-> FullCols, rows |-> a \o b] :
        a \in {<<>>} \cup PipeSeries("MSFT"), b \in {<<>>} \cup PipeSeries("NOK")}
    \ {[cols |-> FullCols, rows |-> <<>>]}

SplitInit ==
    /\ rawExists = TRUE
    /\ raw \in InitialRaws \cup PipelineRaws
    /\ procExists = FALSE
    /\ proc = NoContent
    /\ ret = NoCall
    /\ SplitIdle /\ ValidateIdle /\ LoadIdle /\ RaceIdle

SplitNext == ProcessData \/ TimeSeriesSplit \/ RemoveRaw

SplitSpec == SplitInit /\ [][SplitNext]_vars

\* ------------------------------------------------------------ validate_data_pipeline
\* A DataFrame is its set of columns and its rows; Date is the index, not a
\* column.  The target column is the default, y.
n_splits == 5
\* rows of the frames handed to the validator
MaxValRows == 11

PosInf == <<1, 0>>
NegInf == <<0 - 1, 0>>

ProcessIdle ==
    /\ rawExists = FALSE
    /\ raw = NoRaw
    /\ procExists = FALSE
    /\ proc = NoContent
    /\ ret = NoCall

\* df.isnull().sum() > 0 and df.isin([inf, -inf]).sum() > 0, per column
NanCols(d) == {c \in d.cols : \E i \in 1..Len(d.rows) : d.rows[i][c] = NaN}
InfCols(d) == {c \in d.cols : \E i \in 1..Len(d.rows) : d.rows[i][c] \in {PosInf, NegInf}}

\* df.replace([inf, -inf], nan).dropna(), or df.copy() for a clean frame
DfClean(d) ==
    IF NanCols(d) # {} \/ InfCols(d) # {}
    THEN [cols |-> d.cols,
          rows |-> SelectSeq(d.rows, LAMBDA r : \A c \in d.cols : r[c][2] # 0)]
    ELSE d

\* df_clean['Close'].shift(1).rolling(window=5).mean()
CorrectSma(rows, i) ==
    IF i < 6 THEN NaN ELSE FDiv(CloseSum(rows, i - 5, i - 1), Num(5))

\* not df_clean['Leaky_SMA_5'].equals(correct_sma)
LeakFlagged(dc) ==
    /\ "Leaky_SMA_5" \in dc.cols
    /\ \E i \in 1..Len(dc.rows) : dc.rows[i].Leaky_SMA_5 # CorrectSma(dc.rows, i)

\* abs(balance.get(0, 0) - balance.get(1, 0)) > 0.4 on value_counts(normalize=True)
Imbalanced(dc) ==
    LET n == Len(dc.rows)
        ones == Cardinality({i \in 1..n : dc.rows[i].y = One})
        zeros == Cardinality({i \in 1..n : dc.rows[i].y = Zero})
    IN  n > 0 /\ 5 * Abs(zeros - ones) > 2 * n

\* the findings of steps 1 to 3, in the order they are appended
FindingsBeforeSplit(d) ==
    (IF NanCols(d) # {} THEN <<"NaNs found in columns">> ELSE <<>>)
    \o (IF InfCols(d) # {} THEN <<"Infinite values found in columns">> ELSE <<>>)
    \o (IF LeakFlagged(DfClean(d))
        THEN <<"Potential lookahead bias in 'Leaky_SMA_5'.">> ELSE <<>>)
    \o (IF "y" \in d.cols
        THEN (IF Imbalanced(DfClean(d))
              THEN <<"Significant class imbalance detected.">> ELSE <<>>)
        ELSE <<"Target column 'y' not in DataFrame.">>)

\* features = [col for col in df_clean.columns if col != target_col and 'Date' not in col]
Features(dc) == dc.cols \ {"y"}

\* train_index[-1] >= val_index[0] in some fold
OverlapFound(n) ==
    \E i \in 1..n_splits :
        LET train_index == TrainIndex(n, n_splits, i)
            val_index == TestIndex(n, n_splits, i)
        IN  \E a \in train_index : \E b \in val_index :
                /\ \A x \in train_index : x <= a
                /\ \A x \in val_index : b <= x
                /\ a >= b

\* MinMaxScaler.transform with the statistics of another sample: a column of
\* zero range is shifted, not scaled
Transform(x, lo, hi) ==
    IF lo = hi THEN FSub(x, lo) ELSE FDiv(FSub(x, lo), FSub(hi, lo))

\* X_val_scaled of the last fold, the scaler fit on X_train
ValScaled(dc) ==
    LET n == Len(dc.rows)
        train_index == TrainIndex(n, n_splits, n_splits)
        val_index == TestIndex(n, n_splits, n_splits)
        X_train == [i \in train_index |-> dc.rows[i]]
    IN  {Transform(dc.rows[i][c], ColMin(X_train, c), ColMax(X_train, c)) :
            i \in val_index, c \in Features(dc)}

\* min_val < -0.1 or max_val > 1.1
OutsideRange(dc) ==
    \E v \in ValScaled(dc) : FLt(v, <<0 - 1, 10>>) \/ FLt(<<11, 10>>, v)

FindingsOfSplit(dc) ==
    (IF OverlapFound(Len(dc.rows))
     THEN <<"TimeSeriesSplit validation failed: Train/validation sets overlap.">>
     ELSE <<>>)
    \o (IF OutsideRange(dc)
        THEN <<"Scaled validation data is significantly outside the [0, 1] range.">>
        ELSE <<>>)

\* mutant of the cleaning step: dropna(inplace=True) on the caller's frame
ValidateReturned_Inplace ==
    /\ df # NoFrame
    /\ "y" \in df.cols
    /\ ~TooFewSamples(Len(DfClean(df).rows), n_splits)
    /\ issues_found' = FindingsBeforeSplit(df) \o FindingsOfSplit(DfClean(df))
    /\ valRet' = "returned"
    /\ df' = DfClean(df)
    /\ UNCHANGED <<processVars, splitVars, loadVars, raceVars>>

\* y = df_clean[target_col] raises KeyError
ValidateKeyError ==
    /\ df # NoFrame
    /\ "y" \notin df.cols
    /\ issues_found' = FindingsBeforeSplit(df)
    /\ valRet' = "KeyError"
    /\ UNCHANGED <<df, processVars, splitVars, loadVars, raceVars>>

\* tscv.split(X) raises ValueError: more folds than rows are left
ValidateValueError ==
    /\ df # NoFrame
    /\ "y" \in df.cols
    /\ TooFewSamples(Len(DfClean(df).rows), n_splits)
    /\ issues_found' = FindingsBeforeSplit(df)
    /\ valRet' = "ValueError"
    /\ UNCHANGED <<df, processVars, splitVars, loadVars, raceVars>>

\* the call reaches the final report
ValidateReturned ==
    /\ df # NoFrame
    /\ "y" \in df.cols
    /\ ~TooFewSamples(Len(DfClean(df).rows), n_splits)
    /\ issues_found' = FindingsBeforeSplit(df) \o FindingsOfSplit(DfClean(df))
    /\ valRet' = "returned"
    /\ UNCHANGED <<df, processVars, splitVars, loadVars, raceVars>>

ValidateDataPipeline ==
    \/ ValidateKeyError
    \/ ValidateValueError
    \/ ValidateReturned

\* the frames of generate_sample_df, cut to a few days: Close follows a cycle
\* or a trend, y is the label, Leaky_SMA_5 is absent, leaky (rolling mean of
\* the day itself) or lagged (rolling mean up to the day before)
SampleClose(trend, d) == IF trend THEN Num(10 + d) ELSE Num(10 + (d % 3))
SampleCloses(n, trend) == [d \in 1..n |-> [Close |-> SampleClose(trend, d)]]
SampleRow(g, d, leak, hasY) ==
    LET base == [Date |-> d, Close |-> g[d].Close]
        withLeak == IF leak = "none" THEN base
                    ELSE [c \in DOMAIN base \cup {"Leaky_SMA_5"} |->
                            IF c # "Leaky_SMA_5" THEN base[c]
                            ELSE IF leak = "lagged" THEN CorrectSma(g, d)
                            ELSE IF d < 5 THEN NaN
                            ELSE FDiv(CloseSum(g, d - 4, d), Num(5))]
    IN  IF hasY THEN [c \in DOMAIN withLeak \cup {"y"} |->
                        IF c = "y" THEN Label(g, d) ELSE withLeak[c]]
        ELSE withLeak
\* a defect is a position of the frame and the value its Close takes there
Defects(n) == {<<0, NaN>>} \cup ({1, n} \X {NaN, PosInf})
SampleFrame(n, trend, leak, hasY, defect) ==
    LET g == SampleCloses(n, trend)
    IN  [cols |-> {"Close"} \cup (IF leak = "none" THEN {} ELSE {"Leaky_SMA_5"})
                  \cup (IF hasY THEN {"y"} ELSE {}),
         rows |-> [d \in 1..n |->
                     LET r == SampleRow(g, d, leak, hasY)
                     IN  IF d = defect[1]
                         THEN [c \in DOMAIN r |-> IF c = "Close" THEN defect[2] ELSE r[c]]
                         ELSE r]]
ValInputs ==
    {SampleFrame(n, trend, leak, hasY, defect) :
        n \in 5..MaxValRows, trend \in BOOLEAN, leak \in {"none", "leaky", "lagged"},
        hasY \in BOOLEAN, defect \in Defects(MaxValRows - 1)}

\* the same frames read from a processed CSV of two instruments: the Date
\* index holds every day twice
PairedDates(f) ==
    [cols |-> f.cols,
     rows |-> [i \in 1..Len(f.rows) |->
                 [c \in DOMAIN f.rows[i] |->
                     IF c = "Date" THEN (i + 1) \div 2 ELSE f.rows[i][c]]]]
PairedInputs == {PairedDates(f) : f \in ValInputs}

ValidateInit ==
    /\ df \in ValInputs \cup PairedInputs
    /\ issues_found = <<>>
    /\ valRet = "nocall"
    /\ ProcessIdle /\ SplitIdle /\ LoadIdle /\ RaceIdle

ValidateNext == ValidateDataPipeline

ValidateSpec == ValidateInit /\ [][ValidateNext]_vars

\* ------------------------------------------------------------ output directory
\* the files that the calls have left in os.path.dirname(processed_data_path)
ProcessedDir ==
    (IF procExists THEN {"processed_data.csv"} ELSE {})
    \cup (IF trainFile.exists THEN {"train_data.csv"} ELSE {})
    \cup (IF testFile.exists THEN {"test_data.csv"} ELSE {})

\* ------------------------------------------------------------ load_data
\* load_data runs are counted by the rows they may leave in the raw file
MaxLoads == 2
\* days of the requested date range
MaxLoadDays == 2

\* yf.download(ticker, start, end): the rows of the days start .. end - 1
Quotes(k, start, end) ==
    [i \in 1..(end - start) |->
        RawRow(start + i - 1, k, Num(WarmOpen(k)), Num(WarmClose(k, start + i - 1)))]

\* what download_data appends for ticker n of the file, given how each
\* download went: "data", "empty" (no data found) or "error" (an exception,
\* caught at line 47)
RECURSIVE Downloaded(_, _, _)
Downloaded(args, went, n) ==
    IF n = 0 THEN <<>>
    ELSE Downloaded(args, went, n - 1)
         \o (IF went[n] = "data" THEN Quotes(args.tickers[n], args.start, args.end)
             ELSE <<>>)

\* the ticker file is missing, or has no ticker in it
LoadNoTickers ==
    /\ ~loadArgs.fileExists \/ loadArgs.tickers = <<>>
    /\ loadRet' = None
    /\ UNCHANGED <<loadArgs, processVars, splitVars, validateVars, raceVars>>

\* every download_data call returned None
LoadNothingDownloaded ==
    /\ loadArgs.fileExists /\ loadArgs.tickers # <<>>
    /\ loadRet' = None
    /\ UNCHANGED <<loadArgs, processVars, splitVars, validateVars, raceVars>>

\* each download_data call that got data appended it to the save path
\* (mode='a', the header written only when it created the file)
LoadDownloaded ==
    /\ loadArgs.fileExists /\ loadArgs.tickers # <<>>
    /\ Len(raw.rows) < MaxLoads * Len(loadArgs.tickers) * (loadArgs.end - loadArgs.start)
    /\ \E went \in [1..Len(loadArgs.tickers) -> {"data", "empty", "error"}] :
          LET final_df == Downloaded(loadArgs, went, Len(loadArgs.tickers))
          IN  /\ final_df # <<>>
              /\ rawExists' = TRUE
              /\ raw' = [cols |-> IF rawExists THEN raw.cols ELSE FullCols,
                         rows |-> raw.rows \o final_df]
              /\ loadRet' = DataFrame(final_df)
    /\ UNCHANGED <<loadArgs, procExists, proc, ret, splitVars, validateVars, raceVars>>

LoadData ==
    \/ LoadNoTickers
    \/ LoadNothingDownloaded
    \/ LoadDownloaded

\* ticker files list each ticker once
TickerFiles == {<<>>, <<"MSFT">>, <<"NOK">>, <<"MSFT", "NOK">>, <<"NOK", "MSFT">>}
LoadArgsSet ==
    {NoArgs}
    \cup {[fileExists |-> TRUE, tickers |-> t, start |-> st, end |-> st + n] :
            t \in TickerFiles, st \in 1..2, n \in 1..MaxLoadDays}

LoadInit ==
    /\ loadArgs \in LoadArgsSet
    /\ loadRet = NoCall
    /\ ProcessIdle /\ SplitIdle /\ ValidateIdle /\ RaceIdle

LoadNext == LoadData

LoadSpec == LoadInit /\ [][LoadNext]_vars

\* ------------------------------------------------------------ concurrent process_data
\* Two process_data invocations on the same paths.  Each one is three steps:
\* the existence checks (lines 27-32), the computation (lines 34-89) and the
\* write (lines 90-93); steps of different invocations interleave freely.

\* what lines 34-89 make of the raw file
Computed(exists, r) ==
    IF ~exists THEN Raised
    ELSE IF "Ticker" \notin r.cols THEN None
    ELSE IF Raises(r.rows) THEN Raised
    ELSE IF ProcessRows(r.rows) = <<>> THEN None
    ELSE DataFrame(ProcessRows(r.rows))

RaceCheck(p) ==
    /\ pc[p] = "idle"
    /\ IF ~rawExists \/ procExists
       THEN /\ pc' = [q \in Procs |-> IF q = p THEN "done" ELSE pc[q]]
            /\ local' = [q \in Procs |-> IF q = p THEN None ELSE local[q]]
       ELSE /\ pc' = [q \in Procs |-> IF q = p THEN "checked" ELSE pc[q]]
            /\ UNCHANGED local
    /\ UNCHANGED <<wrote, processVars, splitVars, validateVars, loadVars>>

RaceCompute(p) ==
    /\ pc[p] = "checked"
    /\ LET out == Computed(rawExists, raw)
       IN  /\ local' = [q \in Procs |-> IF q = p THEN out ELSE local[q]]
           /\ pc' = [q \in Procs |->
                       IF q # p THEN pc[q]
                       ELSE IF out.kind = "df" THEN "computed" ELSE "done"]
    /\ UNCHANGED <<wrote, processVars, splitVars, validateVars, loadVars>>

RaceWrite(p) ==
    /\ pc[p] = "computed"
    /\ procExists' = TRUE
    /\ proc' = [dummy |-> FALSE, rows |-> local[p].rows]
    /\ wrote' = wrote \cup {p}
    /\ pc' = [q \in Procs |-> IF q = p THEN "done" ELSE pc[q]]
    /\ UNCHANGED <<local, rawExists, raw, ret, splitVars, validateVars, loadVars>>

RaceInit ==
    /\ rawExists = TRUE
    /\ raw \in InitialRaws
    /\ procExists = FALSE
    /\ proc = NoContent
    /\ ret = NoCall
    /\ SplitIdle /\ ValidateIdle /\ LoadIdle /\ RaceIdle

RaceNext ==
    \/ \E p \in Procs : RaceCheck(p) \/ RaceCompute(p) \/ RaceWrite(p)
    \/ RemoveRaw

RaceSpec == RaceInit /\ [][RaceNext]_vars

\* ------------------------------------------------------------ claims
\* a step is a process_data call exactly when it leaves a return value
IsCall == ret'.kind # "nocall"

RECURSIVE IsSubseq(_, _)
IsSubseq(a, b) ==
    IF a = <<>> THEN TRUE
    ELSE IF b = <<>> THEN FALSE
    ELSE IF Head(a) = Head(b) THEN IsSubseq(Tail(a), Tail(b))
    ELSE IsSubseq(a, Tail(b))

Keys(rows) == {<<rows[i].Ticker, rows[i].Date>> : i \in 1..Len(rows)}

C2_AppendOnly ==
    [][(IsCall /\ procExists /\ ~proc.dummy) =>
          /\ procExists'
          /\ IsSubseq(proc.rows, proc'.rows)
          /\ (rawExists /\ "Ticker" \in raw.cols /\ proc.rows = ProcessRows(raw.rows))
                => Len(proc'.rows) = Len(proc.rows)]_vars

\* C2 witness: a second call has run on a file of persisted rows after the raw
\* input changed, and another on raw input that did not change.
C2_Witness ==
    /\ ret = None
    /\ rawExists /\ procExists /\ ~proc.dummy /\ proc.rows # <<>>
    /\ "Ticker" \in raw.cols
    /\ ProcessRows(raw.rows) # proc.rows
    /\ Len(ProcessRows(raw.rows)) > Len(proc.rows)

\* the raw file is the one the persisted rows came from, extended by later rows
ExtendedSinceRun ==
    /\ rawExists /\ procExists /\ ~proc.dummy /\ proc.rows # <<>>
    /\ "Ticker" \in raw.cols
    /\ DateSorted(raw.rows)
    /\ \E n \in 1..(Len(raw.rows) - 1) :
          /\ n >= Len(raw.rows) - MaxTail
          /\ proc.rows = ProcessRows(SubSeq(raw.rows, 1, n))

\* C3 (as claimed): after a successful full run, once the raw input has been
\* extended with later rows, the next call returns a DataFrame holding only
\* rows that were not persisted before, and the persisted row count grows.
C3_IncrementalRunAppends ==
    [][(IsCall /\ ExtendedSinceRun) =>
          /\ ret'.kind = "df"
          /\ Keys(ret'.rows) \cap Keys(proc.rows) = {}
          /\ Len(proc'.rows) > Len(proc.rows)]_vars

\* C9 (as claimed): on the two-day file with missing values a fresh call
\* returns a DataFrame with exactly one MSFT row, and NOK rows whose Open is
\* forward-filled and normalized to 0.
C9_ShortSeriesMissingValues ==
    [][(IsCall /\ rawExists /\ ~procExists /\ raw = TrickyRaw) =>
          /\ ret'.kind = "df"
          /\ Len(GroupOf(ret'.rows, "MSFT")) = 1
          /\ GroupOf(ret'.rows, "NOK") # <<>>
          /\ \A i \in 1..Len(ret'.rows) :
                ret'.rows[i].Ticker = "NOK" => ret'.rows[i].Open = Zero]_vars

OnlyTicker(rows, k) == SelectSeq(rows, LAMBDA r : r.Ticker = k)

\* the rows of ticker k that survive forward-fill and dropna, before the label
Cleaned(rows, k) == DropNa(FFill(WithFeatures(OnlyTicker(rows, k))))

\* the rows of one ticker in ascending date order (dates are unique per ticker)
SortedGroup(g) ==
    LET R == {g[i] : i \in 1..Len(g)}
    IN  [i \in 1..Len(g) |->
            CHOOSE r \in R : Cardinality({x \in R : x.Date < r.Date}) = i - 1]
SortedRows(rows) ==
    SortedGroup(OnlyTicker(rows, "MSFT")) \o SortedGroup(OnlyTicker(rows, "NOK"))

\* C4 (as claimed): the last surviving row of each instrument, which has no
\* successor and so no defined label, is not in the processed output.
C4_LastRowDropped ==
    ret.kind = "df" =>
        \A k \in Tickers :
            LET c == Cleaned(raw.rows, k)
            IN  c # <<>> => <<k, c[Len(c)].Date>> \notin Keys(ret.rows)

\* C5 (as claimed): every column except y of every output row at time t keeps
\* its value when the raw records of that instrument later than t are deleted
\* before the run.
C5_Causality ==
    ret.kind = "df" =>
        \A i \in 1..Len(ret.rows) :
            LET r == ret.rows[i]
                past == SelectSeq(raw.rows,
                            LAMBDA x : x.Ticker # r.Ticker \/ x.Date <= r.Date)
                again == ProcessRows(past)
            IN  \E j \in 1..Len(again) :
                    /\ again[j].Ticker = r.Ticker
                    /\ again[j].Date = r.Date
                    /\ \A c \in (DOMAIN r) \ {"y"} : again[j][c] = r[c]

\* C6: the output rows of an instrument are the same whether the raw file
\* holds it together with the other instrument or alone.
C6_NoCrossInstrumentLeakage ==
    ret.kind = "df" =>
        \A k \in Tickers :
            OnlyTicker(ret.rows, k) = ProcessRows(OnlyTicker(raw.rows, k))

\* C6 witness: a run on a file with both instruments returned rows of both.
C6_Witness ==
    /\ ret.kind = "df"
    /\ \A k \in Tickers : OnlyTicker(ret.rows, k) # <<>>
    /\ Len(ret.rows) >= 3

\* C7 (as claimed): the output is the one the date-sorted raw rows give,
\* whatever the order of the rows in the file, and it is in date order within
\* each instrument.
C7_InputOrderNotTrusted ==
    ret.kind = "df" =>
        /\ ret.rows = ProcessRows(SortedRows(raw.rows))
        /\ DateSorted(ret.rows)

\* x lies between the column's extremes lo and hi and v is its min-max image
MinMaxImage(v, x, lo, hi) ==
    LET d == FSub(hi, lo)
        n == FSub(x, lo)
    IN  /\ FLe(Zero, v) /\ FLe(v, One)
        /\ IF hi = lo THEN v = Zero
           ELSE v[1] * d[1] * n[2] = n[1] * v[2] * d[2]

\* the same for the logarithmic column, v = <<p, q>> standing for ln p / ln q
LogMinMaxImage(v, x, lo, hi) ==
    IF hi = lo \/ x = lo THEN v = LogZero
    ELSE IF x = hi THEN v = LogOne
    ELSE /\ FLt(One, v[1]) /\ FLt(v[1], v[2])
         /\ v[1][1] * lo[1] * x[2] = x[1] * v[1][2] * lo[2]
         /\ v[2][1] * lo[1] * hi[2] = hi[1] * v[2][2] * lo[2]

C11_FailureIsolated ==
    [][(/\ IsCall /\ rawExists /\ ~procExists /\ "Ticker" \in raw.cols
        /\ Raises(raw.rows)
        /\ \E k \in Tickers : /\ ~GroupRaises(GroupOf(raw.rows, k))
                              /\ ProcessGroup(GroupOf(raw.rows, k)) # <<>>)
          => /\ ret'.kind # "raise"
             /\ procExists'
             /\ \A k \in Tickers :
                   ~GroupRaises(GroupOf(raw.rows, k)) =>
                       OnlyTicker(proc'.rows, k) = ProcessGroup(GroupOf(raw.rows, k))]_vars

\* ---- claims about time_series_split, checked under SplitSpec

\* C12 (as claimed): in the train/test pair of a successful split every train
\* row's timestamp is strictly less than every test row's timestamp.
C12_FoldOrderedByTimestamp ==
    split.kind = "ok" =>
        \A i \in 1..Len(split.train_df), j \in 1..Len(split.test_df) :
            split.train_df[i].Date < split.test_df[j].Date

\* C13 (as claimed): the test set of a successful split holds a quarter of the
\* N rows, up to rounding, and the train set the rest.
C13_Split75_25 ==
    split.kind = "ok" =>
        LET N == Len(split.train_df) + Len(split.test_df)
        IN  Len(split.test_df) \in {N \div 4, (N + 3) \div 4}

\* C14: a time_series_split call on a processed dataset of fewer than
\* k + 1 = 5 rows ends in an error and writes neither train_data.csv nor
\* test_data.csv.
C14_TooFewRowsNoPartialFold ==
    [][(TimeSeriesSplit /\ procExists /\ ~proc.dummy /\ Len(proc.rows) < 5) =>
          /\ split'.kind = "ValueError"
          /\ trainFile' = trainFile
          /\ testFile' = testFile]_vars

\* C14 witness: the split has failed on a dataset of one to four rows and
\* there is neither a train nor a test file.
C14_Witness ==
    /\ split.kind = "ValueError"
    /\ procExists /\ ~proc.dummy
    /\ Len(proc.rows) \in 2..4
    /\ ~trainFile.exists /\ ~testFile.exists

\* the rows of ticker k that its scaler is fit on
FitRows(rows, k) == DropNa(WithLabel(Cleaned(rows, k)))

\* the raw rows with the Close of row n replaced by c
WithClose(rows, n, c) ==
    [i \in 1..Len(rows) |->
        IF i = n THEN RawRow(rows[i].Date, rows[i].Ticker, rows[i].Open, c)
        ELSE rows[i]]

\* C15 (as claimed): for the train/test pair of process_data followed by
\* time_series_split, replacing the raw Close of a row that landed in the test
\* set changes neither a normalized value of a train row nor the minimum and
\* maximum the instrument's columns are scaled with.
C15_NoScalerLeakage ==
    (split.kind = "ok" /\ rawExists /\ procExists) =>
        \A n \in 1..Len(raw.rows), c \in LastCloses :
            <<raw.rows[n].Ticker, raw.rows[n].Date>> \in Keys(split.test_df) =>
                LET alt == WithClose(raw.rows, n, c)
                    again == ProcessRows(alt)
                    k == raw.rows[n].Ticker
                IN  /\ \A i \in 1..Len(split.train_df) :
                          LET r == split.train_df[i]
                          IN  \E j \in 1..Len(again) :
                                  /\ again[j].Ticker = r.Ticker
                                  /\ again[j].Date = r.Date
                                  /\ \A col \in LinearCols \cup {"Log_Return"} :
                                        again[j][col] = r[col]
                    /\ \A col \in LinearCols \cup {"Log_Return"} :
                          /\ ColMin(FitRows(alt, k), col) = ColMin(FitRows(raw.rows, k), col)
                          /\ ColMax(FitRows(alt, k), col) = ColMax(FitRows(raw.rows, k), col)

\* ---- claims about validate_data_pipeline, checked under ValidateSpec

\* C16 (as claimed): every validate_data_pipeline call runs to the final
\* report, whatever the frame, and a frame without y or with too few rows for
\* the folds leaves a finding.
C16_ValidatorNeverThrows ==
    [][valRet' # "nocall" =>
          /\ valRet' = "returned"
          /\ ("y" \notin df.cols \/ TooFewSamples(Len(DfClean(df).rows), n_splits))
                => issues_found' # <<>>]_vars

\* C17: a validate_data_pipeline call leaves the DataFrame it was handed with
\* the same columns, rows and values, however the call ends.
C17_ValidatorReadOnly ==
    [][valRet' # "nocall" => df' = df]_vars

\* C17 witness: a call ran to the final report on a frame with missing values,
\* so rows were dropped for the checks, and the frame still has all its rows.
C17_Witness ==
    /\ valRet = "returned"
    /\ NanCols(df) # {}
    /\ Len(DfClean(df).rows) < Len(df.rows)
    /\ Len(df.rows) = MaxValRows

\* C18 (as claimed): once a fresh process_data call has returned its rows, the
\* output directory holds the persisted scaler state next to the processed
\* dataset.
C18_NormalizationStatePersisted ==
    ret.kind = "df" => "scaler.joblib" \in ProcessedDir

\* C19 (as claimed): after load_data has returned data, however many runs
\* with the same ticker file and date range went before, no (Ticker, Date)
\* record is in the raw file twice.
C19_RawRecordsUnique ==
    (loadRet.kind = "df" /\ rawExists) =>
        \A i, j \in 1..Len(raw.rows) :
            (raw.rows[i].Ticker = raw.rows[j].Ticker /\ raw.rows[i].Date = raw.rows[j].Date)
                => i = j

\* C20 (as claimed): of two concurrent process_data invocations on the same
\* processed path at most one executes the write: they never both pass the
\* existence check and both write the file.
C20_ExclusiveWrite == Cardinality(wrote) <= 1

\* ---- claims about process_data, checked under Spec

C22_LabelDefinition ==
    ret.kind = "df" =>
        \A k \in Tickers :
            LET out == OnlyTicker(ret.rows, k)
                c == Cleaned(raw.rows, k)
            IN  /\ Len(out) = Len(c)
                /\ \A i \in 1..(Len(out) - 1) :
                      /\ out[i].Date = c[i].Date
                      /\ out[i].y = IF FLt(c[i].Close, c[i + 1].Close) THEN One ELSE Zero

\* C22 witness: a call returned three rows of one instrument, the first with a
\* lower successor and label 0, the second with a higher successor and label 1.
C22_Witness ==
    /\ ret.kind = "df"
    /\ \E k \in Tickers :
          LET out == OnlyTicker(ret.rows, k)
              c == Cleaned(raw.rows, k)
          IN  /\ Len(out) = 3 /\ Len(c) = 3
              /\ FLt(c[2].Close, c[1].Close) /\ out[1].y = Zero
              /\ FLt(c[2].Close, c[3].Close) /\ out[2].y = One

\* the sum of the Close of rows lo..hi, taken one row after the other
RECURSIVE SumCloses(_, _, _)
SumCloses(g, lo, hi) ==
    IF lo > hi THEN Zero ELSE FAdd(g[lo].Close, SumCloses(g, lo + 1, hi))

\* C23: for a raw file in date order, the features of every surviving row at
\* position t of its instrument, before normalization, are: SMA_20 the mean of
\* close[t-19..t], Lag_Return_1 the percent change from close[t-2] to
\* close[t-1], Log_Return the logarithm of close[t] / close[t-1]; and they are
\* the same when the rows after t are not in the file.
C23_NoLookaheadInFeatures ==
    (ret.kind = "df" /\ DateSorted(raw.rows)) =>
        \A k \in Tickers :
            LET g == OnlyTicker(raw.rows, k)
                c == Cleaned(raw.rows, k)
            IN  \A i \in 1..Len(c) :
                    LET t == CHOOSE j \in 1..Len(g) : g[j].Date = c[i].Date
                        past == DropNa(FFill(WithFeatures(SubSeq(g, 1, t))))
                    IN  /\ t >= Window
                        /\ c[i].SMA_20 = FDiv(SumCloses(g, t - Window + 1, t), Num(Window))
                        /\ c[i].Lag_Return_1
                              = FSub(FDiv(g[t - 1].Close, g[t - 2].Close), One)
                        /\ c[i].Log_Return = FDiv(g[t].Close, g[t - 1].Close)
                        /\ past # <<>>
                        /\ past[Len(past)] = c[i]

\* C23 witness: a call on a file in date order returned three rows of one
\* instrument whose Close values before normalization all differ.
C23_Witness ==
    /\ ret.kind = "df"
    /\ DateSorted(raw.rows)
    /\ \E k \in Tickers :
          LET c == Cleaned(raw.rows, k)
          IN  /\ Len(c) = 3
              /\ Cardinality({c[i].Close : i \in 1..3}) = 3
              /\ Len(OnlyTicker(ret.rows, k)) = 3

\* ---- more claims about validate_data_pipeline, checked under ValidateSpec

Findings(issues) == {issues[i] : i \in 1..Len(issues)}

\* in some fold of the cleaned frame a train row is not dated strictly before
\* every validation row
FoldTimestampsOverlap(dc) ==
    LET n == Len(dc.rows)
    IN  \E i \in 1..n_splits :
            \E a \in TrainIndex(n, n_splits, i), b \in TestIndex(n, n_splits, i) :
                dc.rows[a].Date >= dc.rows[b].Date

\* C24 (as claimed): a call that builds the folds records the overlap finding
\* whenever, in some fold, the largest train timestamp is not strictly less
\* than the smallest validation timestamp.
C24_FoldOverlapFlagged ==
    [][valRet' = "returned" =>
          (FoldTimestampsOverlap(DfClean(df)) =>
              "TimeSeriesSplit validation failed: Train/validation sets overlap."
                  \in Findings(issues_found'))]_vars

\* C25 (as claimed): on a frame whose Close has no missing or infinite value,
\* a call that runs to the final report records the lookahead finding exactly when the frame's Leaky_SMA_5
\* differs somewhere from the one-step-shifted 5-day rolling mean of its
\* Close, and leaves the column as it was.
C25_LeakCheckExact ==
    [][(valRet' = "returned" /\ "Leaky_SMA_5" \in df.cols
        /\ \A i \in 1..Len(df.rows) : df.rows[i].Close[2] # 0) =>
          /\ df' = df
          /\ ("Potential lookahead bias in 'Leaky_SMA_5'." \in Findings(issues_found'))
                <=> (\E i \in 1..Len(df.rows) :
                        df.rows[i].Leaky_SMA_5 # CorrectSma(df.rows, i))]_vars

\* C26: a process_data call that returns None (raw file missing, processed
\* file present, Ticker column missing, or every instrument skipped) leaves the
\* processed path as it was, and a call that creates or changes the processed
\* file is one that returns a DataFrame.
C26_NoneLeavesProcessedPath ==
    [][IsCall =>
          /\ ret' = None => (procExists' = procExists /\ proc' = proc)
          /\ (procExists' # procExists \/ proc' # proc) => ret'.kind = "df"]_vars

\* C26 witness: a call has returned None because every instrument of a raw
\* file with the Ticker column was skipped, and there is no processed file.
C26_Witness ==
    /\ ret = None
    /\ rawExists /\ ~procExists
    /\ "Ticker" \in raw.cols
    /\ raw.rows # <<>>
    /\ \A k \in Tickers : Cleaned(raw.rows, k) = <<>>

Occurrences(r, rows) == Cardinality({i \in 1..Len(rows) : rows[i] = r})

\* C27: a successful split of N >= 5 processed rows cuts the Date-sorted rows
\* in two: the train rows followed by the test rows are in ascending Date
\* order, no row is in both parts, every processed row is in the two parts
\* together exactly as often as in the processed file, and both files are
\* written with as many rows as their part.
C27_SplitPartitionsRows ==
    [][(TimeSeriesSplit /\ split'.kind = "ok") =>
          LET train == split'.train_df
              test == split'.test_df
              all == train \o test
          IN  /\ Len(proc.rows) >= 5
              /\ Len(test) >= 1 /\ Len(train) >= 1
              /\ \A i \in 1..(Len(all) - 1) : all[i].Date <= all[i + 1].Date
              /\ \A i \in 1..Len(train), j \in 1..Len(test) : train[i] # test[j]
              /\ Len(all) = Len(proc.rows)
              /\ \A i \in 1..Len(proc.rows) :
                    Occurrences(proc.rows[i], all) = Occurrences(proc.rows[i], proc.rows)
              /\ trainFile'.exists /\ Len(trainFile'.rows) = Len(train)
              /\ testFile'.exists /\ Len(testFile'.rows) = Len(test)]_vars

\* C27 witness: a split has succeeded on a processed file of two instruments
\* whose file order is not the Date order, and both parts hold rows.
C27_Witness ==
    /\ split.kind = "ok"
    /\ procExists /\ ~proc.dummy
    /\ Len(proc.rows) >= 6
    /\ \E i \in 1..(Len(proc.rows) - 1) : proc.rows[i].Date > proc.rows[i + 1].Date
    /\ Len(split.train_df) + Len(split.test_df) = Len(proc.rows)
    /\ split.test_df # <<>>
    /\ trainFile.exists /\ testFile.exists

====
